---------------------------- MODULE Spec2Model ----------------------------
(***************************************************************************)
(* Model of the wave screensaver (OlegChuev/screensaver).                  *)
(*                                                                         *)
(*   internal/renderer/renderer.go   frame buffer, projection, rasterizer  *)
(*   internal/wave/surface.go        Gerstner surface model                *)
(*   internal/app/app.go             tick loop (Run, handleEvent)          *)
(*                                                                         *)
(* The Wave holds its float64 fields as integers in thousandths ("milli"):  *)
(* 1.0 is 1000.  The renderer computes with float64 values proper: the     *)
(* float64 nearest to the stored decimal, and IEEE 754 arithmetic on it.   *)
(* Go's int(f) truncates toward zero (TruncDiv).                           *)
(***************************************************************************)
EXTENDS Integers, Sequences, FiniteSets, TLC

VARIABLES
    r,          \* *Renderer: width, height, buffer, centerX, centerY (+ panicked, acc)
    scr,        \* tcell.Screen: size, pending events, cells set, finalised
    wave,       \* *wave.Wave: GridPoints, MinZ, MaxZ, Particles
    app,        \* Run's position: pc, tick counter, signal channel, result
    aux,        \* history of the current tick (what was written, consumed, called)
    pal         \* palette look-ups under test: inputs and results

vars == <<r, scr, wave, app, aux, pal>>

----------------------------------------------------------------------------
(* Bounds of the model *)

MaxDim == 2          \* the buffer harness uses frames of 1..MaxDim columns and rows
MidDim == 3          \* columns or rows of a typical terminal (80x24), scaled down
BigDim == 4          \* columns or rows of a large terminal (400x120), scaled down
MaxWrites == 2       \* setCell calls issued per tick by the buffer harness
MaxTicks == 3        \* ticks Run performs before the model stops the ticker
MaxQueue == 2        \* pending tcell events
MaxCalls == 2        \* Update calls issued by the wave harness
MaxTime == 9         \* the wave harness calls Update at times 0 .. MaxTime * 0.08
ShadeSteps == 16     \* the palette harness looks up -0.5, -0.375, ... (ShadeSteps steps)
LineSpan == 3         \* the line harness draws between endpoints in -LineSpan .. LineSpan

----------------------------------------------------------------------------
(* Arithmetic helpers *)

abs(x) == IF x < 0 THEN -x ELSE x

\* Go's float-to-int conversion and integer division truncate toward zero.
TruncDiv(a, b) == IF a >= 0 THEN a \div b ELSE -((-a) \div b)

Min2(a, b) == IF a < b THEN a ELSE b
Max2(a, b) == IF a > b THEN a ELSE b

\* math.MaxFloat64 / -math.MaxFloat64: beyond every value the model computes.
MaxFloat64 == 2000000000
NegMaxFloat64 == -2000000000

----------------------------------------------------------------------------
(* float64 arithmetic, bit for bit (IEEE 754 binary64, round to nearest, ties
   to even), as Go performs it on amd64, where no multiplication is fused with
   an addition.  Mantissas are natural numbers of any size: limbs of LimbBits
   bits, least significant first, no leading zero limb. *)
LimbBits == 13
LimbBase == 8192

RECURSIVE BTrim(_)
BTrim(a) == IF a # <<>> /\ a[Len(a)] = 0 THEN BTrim(SubSeq(a, 1, Len(a) - 1)) ELSE a

RECURSIVE BFromInt(_)
BFromInt(n) == IF n = 0 THEN <<>> ELSE <<n % LimbBase>> \o BFromInt(n \div LimbBase)

RECURSIVE BToInt(_)
BToInt(a) == IF a = <<>> THEN 0 ELSE a[1] + LimbBase * BToInt(Tail(a))

Limb(a, i) == IF i <= Len(a) THEN a[i] ELSE 0

RECURSIVE BAddFrom(_, _, _, _)
BAddFrom(a, b, i, carry) ==
    IF i > Len(a) /\ i > Len(b)
    THEN IF carry = 0 THEN <<>> ELSE <<carry>>
    ELSE LET v == Limb(a, i) + Limb(b, i) + carry
         IN  <<v % LimbBase>> \o BAddFrom(a, b, i + 1, v \div LimbBase)

BAdd(a, b) == BAddFrom(a, b, 1, 0)

\* a - b for a >= b
RECURSIVE BSubFrom(_, _, _, _)
BSubFrom(a, b, i, borrow) ==
    IF i > Len(a) THEN <<>>
    ELSE LET v == a[i] - Limb(b, i) - borrow
         IN  <<v % LimbBase>> \o BSubFrom(a, b, i + 1, IF v < 0 THEN 1 ELSE 0)

BSub(a, b) == BTrim(BSubFrom(a, b, 1, 0))

\* -1, 0, 1 as a < b, a = b, a > b
RECURSIVE BCmpFrom(_, _, _)
BCmpFrom(a, b, i) ==
    IF i = 0 THEN 0
    ELSE IF a[i] < b[i] THEN -1
    ELSE IF a[i] > b[i] THEN 1
    ELSE BCmpFrom(a, b, i - 1)

BCmp(a, b) ==
    IF Len(a) < Len(b) THEN -1
    ELSE IF Len(a) > Len(b) THEN 1
    ELSE BCmpFrom(a, b, Len(a))

\* a * k for 0 <= k <= LimbBase
RECURSIVE BMulSmallFrom(_, _, _, _)
BMulSmallFrom(a, k, i, carry) ==
    IF i > Len(a) THEN IF carry = 0 THEN <<>> ELSE <<carry>>
    ELSE LET v == a[i] * k + carry
         IN  <<v % LimbBase>> \o BMulSmallFrom(a, k, i + 1, v \div LimbBase)

BMulSmall(a, k) == IF k = 0 THEN <<>> ELSE BMulSmallFrom(a, k, 1, 0)

RECURSIVE BMulFrom(_, _, _)
BMulFrom(a, b, i) ==
    IF i > Len(b) THEN <<>>
    ELSE BAdd(IF b[i] = 0 THEN <<>> ELSE [j \in 1 .. i - 1 |-> 0] \o BMulSmall(a, b[i]),
              BMulFrom(a, b, i + 1))

BMul(a, b) == IF a = <<>> \/ b = <<>> THEN <<>> ELSE BMulFrom(a, b, 1)

\* floor(a / k) for 0 < k <= LimbBase, from limb i down, carry the running remainder
RECURSIVE BDivSmallFrom(_, _, _, _)
BDivSmallFrom(a, k, i, carry) ==
    IF i = 0 THEN <<>>
    ELSE LET v == carry * LimbBase + a[i]
         IN  BDivSmallFrom(a, k, i - 1, v % k) \o <<v \div k>>

BDivSmall(a, k) == BTrim(BDivSmallFrom(a, k, Len(a), 0))

\* a * 2^n
BShl(a, n) ==
    IF a = <<>> THEN <<>>
    ELSE [j \in 1 .. n \div LimbBits |-> 0] \o BMulSmall(a, 2 ^ (n % LimbBits))

\* floor(a / 2^n)
BShr(a, n) ==
    IF n \div LimbBits >= Len(a) THEN <<>>
    ELSE BDivSmall(SubSeq(a, n \div LimbBits + 1, Len(a)), 2 ^ (n % LimbBits))

RECURSIVE IntBits(_)
IntBits(n) == IF n = 0 THEN 0 ELSE 1 + IntBits(n \div 2)

\* number of bits of a
BLen(a) == IF a = <<>> THEN 0 ELSE LimbBits * (Len(a) - 1) + IntBits(a[Len(a)])

\* bit number i of a (bit 0 is the lowest)
BBit(a, i) == (Limb(a, i \div LimbBits + 1) \div (2 ^ (i % LimbBits))) % 2

\* <<floor(a / b), a mod b>> for b # 0: schoolbook division bit by bit, from
\* bit i of a down, with q and rem the quotient and remainder so far
RECURSIVE BDivModFrom(_, _, _, _, _)
BDivModFrom(a, b, i, q, rem) ==
    IF i < 0 \/ Len(q) < 0 \/ Len(rem) < 0 THEN <<q, rem>>
    ELSE LET r2 == BAdd(BMulSmall(rem, 2), IF BBit(a, i) = 1 THEN <<1>> ELSE <<>>)
             ge == BCmp(r2, b) >= 0
         IN  BDivModFrom(a, b, i - 1,
                         BAdd(BMulSmall(q, 2), IF ge THEN <<1>> ELSE <<>>),
                         IF ge THEN BSub(r2, b) ELSE r2)

\* a divisor of one limb is divided by limb by limb
BDivMod(a, b) ==
    IF Len(b) = 1
    THEN LET q == BDivSmall(a, b[1]) IN <<q, BSub(a, BMulSmall(q, b[1]))>>
    ELSE BDivModFrom(a, b, BLen(a) - 1, <<>>, <<>>)

\* a # 0 without the zero bits at its low end
RECURSIVE BOddPart(_)
BOddPart(a) ==
    IF a[1] = 0 THEN BOddPart(Tail(a))
    ELSE IF a[1] % 2 = 0 THEN BOddPart(BDivSmall(a, 2))
    ELSE a

\* A float64 is zero (s = 0) or s * m * 2^e with m of exactly MantBits bits.
\* The exact result of an operation, before it is rounded, has an m of any size;
\* its sticky tells that a non-zero part below m was cut off.
MantBits == 53

FZero == [s |-> 0, m |-> <<>>, e |-> 0, sticky |-> FALSE]

\* T without its lowest bit, rounded to nearest, ties to even
RoundHalfEven(T, sticky) ==
    IF BBit(T, 0) = 1 /\ (sticky \/ BBit(T, 1) = 1) THEN BAdd(BShr(T, 1), <<1>>)
    ELSE BShr(T, 1)

\* The float64 nearest to x, ties to even.  Rounding up may carry into one bit
\* more than MantBits: the second round drops it.
RECURSIVE FRound(_)
FRound(x) ==
    IF x.s = 0 THEN FZero
    ELSE LET sh == BLen(x.m) - MantBits
         IN  IF sh <= 0
             THEN [s |-> x.s, m |-> BShl(x.m, -sh), e |-> x.e + sh, sticky |-> FALSE]
             ELSE FRound([s |-> x.s,
                          m |-> RoundHalfEven(BShr(x.m, sh - 1),
                                              x.sticky \/ BShl(BShr(x.m, sh - 1), sh - 1) # x.m),
                          e |-> x.e + sh, sticky |-> FALSE])

\* s * qr[1] * 2^e, where qr[2] is the remainder of the division that gave qr[1]
FQuot(s, qr, e) == [s |-> s, m |-> qr[1], e |-> e, sticky |-> qr[2] # <<>>]

\* n / d (d > 0), to 80 binary places
FFromRatio(n, d) ==
    IF n = 0 THEN FZero
    ELSE FQuot(IF n < 0 THEN -1 ELSE 1, BDivMod(BShl(BFromInt(abs(n)), 80), BFromInt(d)), -80)

\* a * b, exact
FMul(a, b) == [s |-> a.s * b.s, m |-> BMul(a.m, b.m), e |-> a.e + b.e, sticky |-> FALSE]

\* sa * Ma * 2^e + sb * Mb * 2^e, exact
FAddAligned(sa, Ma, sb, Mb, e) ==
    IF sa = sb THEN [s |-> sa, m |-> BAdd(Ma, Mb), e |-> e, sticky |-> FALSE]
    ELSE IF BCmp(Ma, Mb) = 0 THEN FZero
    ELSE IF BCmp(Ma, Mb) > 0 THEN [s |-> sa, m |-> BSub(Ma, Mb), e |-> e, sticky |-> FALSE]
    ELSE [s |-> sb, m |-> BSub(Mb, Ma), e |-> e, sticky |-> FALSE]

\* a + b, exact
FAdd(a, b) ==
    IF a.s = 0 THEN b
    ELSE IF b.s = 0 THEN a
    ELSE FAddAligned(a.s, BShl(a.m, a.e - Min2(a.e, b.e)),
                     b.s, BShl(b.m, b.e - Min2(a.e, b.e)), Min2(a.e, b.e))

\* a / b (b # 0), to at least 56 binary places beyond MantBits
FDiv(a, b) ==
    IF a.s = 0 THEN FZero
    ELSE FQuot(a.s * b.s, BDivMod(BShl(a.m, 56), BOddPart(b.m)),
               a.e - b.e - (MantBits - BLen(BOddPart(b.m))) - 56)

\* a < b
FLess(a, b) ==
    IF a.s # b.s THEN a.s < b.s
    ELSE IF a.s = 0 THEN FALSE
    ELSE LET c == IF a.e # b.e THEN (IF a.e < b.e THEN -1 ELSE 1) ELSE BCmp(a.m, b.m)
         IN  IF a.s = 1 THEN c < 0 ELSE c > 0

\* int(a): truncation toward zero
FToInt(a) ==
    IF a.s = 0 THEN 0
    ELSE a.s * BToInt(IF a.e >= 0 THEN BShl(a.m, a.e) ELSE BShr(a.m, -a.e))

----------------------------------------------------------------------------
(* Rational numbers <<n, d>>, d > 0, not necessarily in lowest terms: the
   exact value of a float64 expression. *)

RECURSIVE GCD(_, _)
GCD(a, b) == IF b = 0 THEN a ELSE GCD(b, a % b)

\* n / d for d a power of ten, trailing zeros removed
RECURSIVE QDec(_, _)
QDec(n, d) == IF d > 1 /\ n % 10 = 0 THEN QDec(n \div 10, d \div 10) ELSE <<n, d>>

QAdd(a, b) ==
    IF a[2] = b[2] THEN <<a[1] + b[1], a[2]>>
    ELSE IF a[2] % b[2] = 0 THEN <<a[1] + b[1] * (a[2] \div b[2]), a[2]>>
    ELSE IF b[2] % a[2] = 0 THEN <<a[1] * (b[2] \div a[2]) + b[1], b[2]>>
    ELSE LET g == GCD(a[2], b[2])
         IN  <<a[1] * (b[2] \div g) + b[1] * (a[2] \div g), (a[2] \div g) * b[2]>>

QMul(a, b) == <<a[1] * b[1], a[2] * b[2]>>

\* a / b for b # 0
QDiv(a, b) ==
    LET n == IF a[2] = b[2] THEN a[1] ELSE a[1] * b[2]
        d == IF a[2] = b[2] THEN b[1] ELSE a[2] * b[1]
    IN  IF d < 0 THEN <<-n, -d>> ELSE <<n, d>>

\* a = b: the whole parts (floors) are equal and so are the rests
QEq(a, b) ==
    /\ a[1] \div a[2] = b[1] \div b[2]
    /\ (a[1] % a[2]) * b[2] = (b[1] % b[2]) * a[2]

\* a < b: by the whole parts first, then by the rests
QLess(a, b) ==
    IF a[1] \div a[2] # b[1] \div b[2] THEN a[1] \div a[2] < b[1] \div b[2]
    ELSE (a[1] % a[2]) * b[2] < (b[1] % b[2]) * a[2]

----------------------------------------------------------------------------
(* float64 values of the renderer.  A value carries its exact value q and the
   expression e that computed it from decimal literals and integers.  The
   rounding of float64 arithmetic is far smaller than the distance between two
   different exact values that occur, so a conversion to int or a comparison is
   decided by the exact values, except where the exact value lies on the
   boundary (a whole number, two equal values): there the float64 arithmetic
   is carried out bit for bit and decides. *)

\* The float64 nearest to m / 1000: a coordinate, MinZ or MaxZ as the wave holds
\* them, or a constant of the source such as 0.95.
Lit(m) == [q |-> QDec(m, 1000), e |-> <<"lit", m>>]

\* float64(k)
IntF(k) == [q |-> <<k, 1>>, e |-> <<"int", k>>]

Plus(a, b) == [q |-> QAdd(a.q, b.q), e |-> <<"add", a.e, b.e>>]
Minus(a, b) == [q |-> QAdd(a.q, <<-b.q[1], b.q[2]>>), e |-> <<"sub", a.e, b.e>>]
Times(a, b) == [q |-> QMul(a.q, b.q), e |-> <<"mul", a.e, b.e>>]
Over(a, b) == [q |-> QDiv(a.q, b.q), e |-> <<"div", a.e, b.e>>]

\* The float64 an expression evaluates to: every operation is rounded.
RECURSIVE Bits(_)
Bits(e) ==
    FRound(CASE e[1] = "lit" -> FFromRatio(e[2], 1000)
             [] e[1] = "int" -> FFromRatio(e[2], 1)
             [] e[1] = "add" -> FAdd(Bits(e[2]), Bits(e[3]))
             [] e[1] = "sub" -> FAdd(Bits(e[2]), [Bits(e[3]) EXCEPT !.s = -@])
             [] e[1] = "mul" -> FMul(Bits(e[2]), Bits(e[3]))
             [] e[1] = "div" -> FDiv(Bits(e[2]), Bits(e[3])))

\* int(a)
ToInt(a) == IF a.q[1] % a.q[2] = 0 THEN FToInt(Bits(a.e)) ELSE TruncDiv(a.q[1], a.q[2])

\* a < b
Less(a, b) ==
    IF QEq(a.q, b.q) THEN a.e # b.e /\ FLess(Bits(a.e), Bits(b.e))
    ELSE QLess(a.q, b.q)

\* a == 0
IsZero(a) == a.q[1] = 0 /\ Bits(a.e).s = 0

----------------------------------------------------------------------------
(* Renderer: frame buffer *)

\* The zero value of cell (what make([]cell, n) holds).
ZeroCell == [char |-> "NUL", style |-> "StyleDefault", depth |-> Lit(0), set |-> FALSE]

\* cell{depth: -math.MaxFloat64}
ClearedCell == [char |-> "NUL", style |-> "StyleDefault",
                depth |-> Lit(NegMaxFloat64), set |-> FALSE]

\* Whether buffer[y][x] exists; an access where it does not is a runtime panic.
InRange(buffer, y, x) ==
    /\ y \in DOMAIN buffer
    /\ x \in DOMAIN buffer[y]

\* A fresh buffer: nothing of it has been accessed yet.
initBuffer(rr) ==
    [rr EXCEPT !.buffer = [y \in 0 .. rr.height - 1 |->
                              [x \in 0 .. rr.width - 1 |-> ZeroCell]],
               !.acc = {}]

NewRenderer(size) ==
    initBuffer([width |-> size[1], height |-> size[2],
                centerX |-> 500 * size[1], centerY |-> 500 * size[2],
                buffer |-> <<>>, panicked |-> FALSE, acc |-> {}])

\* Resize updating the dimensions and keeping the old buffer.
ResizeNoRealloc(rr, size) ==
    [rr EXCEPT !.width = size[1], !.height = size[2],
               !.centerX = 500 * size[1], !.centerY = 500 * size[2]]

Resize(rr, size) ==
    initBuffer([rr EXCEPT !.width = size[1], !.height = size[2],
                          !.centerX = 500 * size[1], !.centerY = 500 * size[2]])

\* Every index pair that exists in the buffer (range over rows, range over a row).
Cells(buffer) == UNION {{<<y, x>> : x \in DOMAIN buffer[y]} : y \in DOMAIN buffer}

\* Clear resetting each cell to the zero value of cell.
ClearZero(rr) ==
    [rr EXCEPT !.buffer = [y \in DOMAIN rr.buffer |->
                              [x \in DOMAIN rr.buffer[y] |-> ZeroCell]],
               !.acc = Cells(rr.buffer)]

\* Clear resetting only the depth of each cell.
ClearDepthOnly(rr) ==
    [rr EXCEPT !.buffer = [y \in DOMAIN rr.buffer |->
                              [x \in DOMAIN rr.buffer[y] |->
                                  [rr.buffer[y][x] EXCEPT !.depth = Lit(NegMaxFloat64)]]],
               !.acc = Cells(rr.buffer)]

\* Clear, the renderer's part: every existing cell is reset; acc restarts with the
\* cells this walk touched.
Clear(rr) ==
    [rr EXCEPT !.buffer = [y \in DOMAIN rr.buffer |->
                              [x \in DOMAIN rr.buffer[y] |-> ClearedCell]],
               !.acc = Cells(rr.buffer)]

\* setCell with the depth test admitting equal depths.
setCellGE(rr, x, y, char, depth, style) ==
    IF x < 0 \/ x >= rr.width \/ y < 0 \/ y >= rr.height
    THEN rr
    ELSE IF ~InRange(rr.buffer, y, x)
         THEN [rr EXCEPT !.panicked = TRUE, !.acc = @ \cup {<<y, x>>}]
         ELSE IF ~Less(depth, rr.buffer[y][x].depth)
              THEN [rr EXCEPT !.buffer[y][x] = [char |-> char, style |-> style,
                                                depth |-> depth, set |-> TRUE],
                              !.acc = @ \cup {<<y, x>>}]
              ELSE [rr EXCEPT !.acc = @ \cup {<<y, x>>}]

\* setCell with the upper bounds checked with > instead of >=.
setCellOffByOne(rr, x, y, char, depth, style) ==
    IF x < 0 \/ x > rr.width \/ y < 0 \/ y > rr.height
    THEN rr
    ELSE IF ~InRange(rr.buffer, y, x)
         THEN [rr EXCEPT !.panicked = TRUE, !.acc = @ \cup {<<y, x>>}]
         ELSE IF Less(rr.buffer[y][x].depth, depth)
              THEN [rr EXCEPT !.buffer[y][x] = [char |-> char, style |-> style,
                                                depth |-> depth, set |-> TRUE],
                              !.acc = @ \cup {<<y, x>>}]
              ELSE [rr EXCEPT !.acc = @ \cup {<<y, x>>}]

setCell(rr, x, y, char, depth, style) ==
    IF x < 0 \/ x >= rr.width \/ y < 0 \/ y >= rr.height
    THEN rr
    ELSE IF ~InRange(rr.buffer, y, x)
         THEN [rr EXCEPT !.panicked = TRUE, !.acc = @ \cup {<<y, x>>}]
         ELSE IF Less(rr.buffer[y][x].depth, depth)
              THEN [rr EXCEPT !.buffer[y][x] = [char |-> char, style |-> style,
                                                depth |-> depth, set |-> TRUE],
                              !.acc = @ \cup {<<y, x>>}]
              ELSE [rr EXCEPT !.acc = @ \cup {<<y, x>>}]

\* Flush, the renderer's part: the loops read buffer[y][x] for y < height, x < width.
FlushReads(rr) == (0 .. rr.height - 1) \X (0 .. rr.width - 1)

Flush(rr) ==
    [rr EXCEPT !.acc = @ \cup FlushReads(rr),
               !.panicked = @ \/ (\E c \in FlushReads(rr) : ~InRange(rr.buffer, c[1], c[2]))]

\* Flush, the display's part: one SetContent(x, y, char, nil, style) per occupied cell.
FlushContent(rr) ==
    {[x |-> c[2], y |-> c[1], char |-> rr.buffer[c[1]][c[2]].char,
      style |-> rr.buffer[c[1]][c[2]].style] :
        c \in {d \in FlushReads(rr) :
                  InRange(rr.buffer, d[1], d[2]) /\ rr.buffer[d[1]][d[2]].set}}

----------------------------------------------------------------------------
(* Surface model (wave.Wave) *)

\* Config: the grid is GridDepth rows of GridWidth samples (DefaultConfig holds
\* 80 x 60; the model runs a smaller grid of the same shape).
GridWidth == 4
GridDepth == 4
WaveCount == 3

ISqrt(v) == CHOOSE n \in 0 .. 2000 : n * n <= v /\ v < (n + 1) * (n + 1)

\* sin and cos of an angle given in thousandths of a turn, in thousandths
\* (Bhaskara's rational approximation of math.Sin on a half turn).
SinMilli(p) ==
    LET q == p % 1000
        h == q % 500
        v == (16000 * h * (500 - h)) \div (1250000 - 4 * h * (500 - h))
    IN  IF q < 500 THEN v ELSE -v

CosMilli(p) == SinMilli(p + 250)

\* The three components as NewWave writes them, before normalisation.
RawWaves ==
    << [Amplitude |-> 150, Wavelength |-> 1500, Speed |-> 800,
        Direction |-> <<1000, 300>>, Steepness |-> 600],
       [Amplitude |-> 80, Wavelength |-> 800, Speed |-> 1200,
        Direction |-> <<700, -500>>, Steepness |-> 400],
       [Amplitude |-> 50, Wavelength |-> 400, Speed |-> 1600,
        Direction |-> <<-300, 800>>, Steepness |-> 300] >>

\* Direction /= sqrt(dx*dx + dy*dy)
Normalize(wp) ==
    LET len == ISqrt(wp.Direction[1] * wp.Direction[1] + wp.Direction[2] * wp.Direction[2])
    IN  [wp EXCEPT !.Direction = <<TruncDiv(wp.Direction[1] * 1000, len),
                                   TruncDiv(wp.Direction[2] * 1000, len)>>]

NewWave ==
    [Particles |-> <<>>,
     GridPoints |-> [d \in 0 .. GridDepth - 1 |->
                        [w \in 0 .. GridWidth - 1 |-> [X |-> 0, Y |-> 0, Z |-> 0]]],
     waves |-> [i \in 1 .. WaveCount |-> Normalize(RawWaves[i])],
     MinZ |-> 0,
     MaxZ |-> 0]

\* One component's contribution at (x0, y0, t): <<dx, dy, dz>> added to x, y, z.
\*   k = 2*pi/Wavelength, Q = Steepness/(k*Amplitude*len(waves)),
\*   phase = k*(dx*x0 + dy*y0) - Speed*t, kept in thousandths of a turn.
GerstnerTerm(wp, nWaves, x0, y0, t) ==
    LET dot == TruncDiv(wp.Direction[1] * x0 + wp.Direction[2] * y0, 1000)
        phase == TruncDiv(dot * 1000, wp.Wavelength) - TruncDiv(wp.Speed * t, 6283)
        QA == TruncDiv(wp.Steepness * wp.Wavelength, 6283 * nWaves)
    IN  << TruncDiv(TruncDiv(QA * wp.Direction[1], 1000) * CosMilli(phase), 1000),
           TruncDiv(TruncDiv(QA * wp.Direction[2], 1000) * CosMilli(phase), 1000),
           TruncDiv(wp.Amplitude * SinMilli(phase), 1000) >>

RECURSIVE GerstnerSum(_, _, _, _, _, _)
GerstnerSum(waves, i, x0, y0, t, acc) ==
    IF i > Len(waves) THEN acc
    ELSE LET g == GerstnerTerm(waves[i], Len(waves), x0, y0, t)
         IN  GerstnerSum(waves, i + 1, x0, y0, t,
                         [X |-> acc.X + g[1], Y |-> acc.Y + g[2], Z |-> acc.Z + g[3]])

gerstnerWave(w, x0, y0, t) ==
    GerstnerSum(w.waves, 1, x0, y0, t, [X |-> x0, Y |-> y0, Z |-> 0])

\* math.Mod(float64(n), 1.0/ParticleDensity) < 1.0 with ParticleDensity = 0.3:
\* the divisor is the float64 nearest to 10/3, which lies just above it.
DensityPass(n) ==
    LET m == (3 * n) % 10
    IN  n = 0 \/ m \in {1, 2} \/ (m = 3 /\ n >= 4)

\* The grid pass of Update from sample number k (row-major) on.
RECURSIVE UpdateGrid(_, _, _)
UpdateGrid(w, t, k) ==
    IF k >= GridDepth * GridWidth THEN w
    ELSE LET depth == k \div GridWidth
             width == k % GridWidth
             x0 == TruncDiv(width * 2000, GridWidth - 1) - 1000
             y0 == TruncDiv(depth * 2000, GridDepth - 1) - 1000
             p == gerstnerWave(w, x0, y0, t)
         IN  UpdateGrid([w EXCEPT !.GridPoints[depth][width] = p,
                                  !.MinZ = IF p.Z < @ THEN p.Z ELSE @,
                                  !.MaxZ = IF p.Z > @ THEN p.Z ELSE @],
                        t, k + 1)

\* The particle pass of Update: every third row and column.
RECURSIVE UpdateParticles(_, _, _)
UpdateParticles(w, depth, width) ==
    IF depth >= GridDepth THEN w
    ELSE IF width >= GridWidth THEN UpdateParticles(w, depth + 3, 0)
    ELSE LET p == w.GridPoints[depth][width]
             hit == /\ DensityPass(width + depth)
                    /\ p.Z > TruncDiv((w.MaxZ - w.MinZ) * 600, 1000) + w.MinZ
         IN  UpdateParticles(
                 IF hit THEN [w EXCEPT !.Particles = Append(@, [Pos |-> p, Velocity |-> p.Z])]
                        ELSE w,
                 depth, width + 3)

\* Update without the truncation of the particle list.
ResetParticlesNone(w) == w

\* w.Particles = w.Particles[:0]
ResetParticles(w) == [w EXCEPT !.Particles = SubSeq(@, 1, 0)]

\* Update without the reset of the running minimum and maximum.
ResetRangeNone(w) == w

\* w.MinZ = math.MaxFloat64; w.MaxZ = -math.MaxFloat64
ResetRange(w) == [w EXCEPT !.MinZ = MaxFloat64, !.MaxZ = NegMaxFloat64]

Update(w, t) ==
    UpdateParticles(ResetParticles(UpdateGrid(ResetRange(w), t, 0)), 0, 0)

Size(w) == <<GridDepth, GridWidth>>

----------------------------------------------------------------------------
(* Renderer: projection and shading *)

scaleXFactor == 950
scaleYFactor == 700
perspectiveY == 400
depthZFactor == 300

shadeChars == <<" ", ".", ":", "-", "=", "+", "*", "#", "%", "@">>
blockChars == <<"light", "medium", "dark", "full">>

project3D(rr, p) ==
    LET scaleX == Times(IntF(rr.width), Lit(scaleXFactor))
        scaleY == Times(IntF(rr.height), Lit(scaleYFactor))
    IN  [x |-> ToInt(Plus(Lit(rr.centerX), Times(Lit(p.X), scaleX))),
         y |-> ToInt(Minus(Minus(Lit(rr.centerY), Times(Lit(p.Z), scaleY)),
                           Times(Times(Lit(p.Y), scaleY), Lit(perspectiveY)))),
         depth |-> Plus(Lit(p.Y), Times(Lit(p.Z), Lit(depthZFactor)))]

\* The build's target: a float64-to-int conversion of a value int cannot hold is
\* implementation-dependent in Go, and the targets differ.
GoArchs == {"amd64", "arm64"}

\* int's extremes; only their sign and their being out of every palette matter.
IntMin == -2000000000
IntMax == 2000000000

\* The values that lie beyond int's range, also when multiplied by a palette
\* size, are the literals +-MaxFloat64.
OutOfInt(f) == f.e[1] = "lit" /\ (f.e[2] >= MaxFloat64 \/ f.e[2] <= NegMaxFloat64)

\* int(value * float64(n - 1)): truncation toward zero; out of range, amd64
\* yields the minimum int whatever the sign and arm64 saturates.
FloatToInt(value, n, arch) ==
    IF ~OutOfInt(value) THEN ToInt(Times(value, IntF(n - 1)))
    ELSE IF arch = "amd64" THEN IntMin
    ELSE IF value.e[2] > 0 THEN IntMax ELSE IntMin

\* The index mapToChar selects (0-based, as in the code).
mapToIndex(value, n) ==
    Max2(0, Min2(n - 1, FloatToInt(value, n, pal.arch)))

mapToChar(value, chars) == chars[mapToIndex(value, Len(chars)) + 1]

getShadeChar(normalizedZ, layerFactor) ==
    mapToChar(Plus(Times(normalizedZ, Lit(700)), Times(layerFactor, Lit(300))), shadeChars)

getBlockChar(normalizedZ, layerFactor) ==
    mapToChar(Plus(Times(normalizedZ, Lit(600)), Times(layerFactor, Lit(400))), blockChars)

colorGradient ==
    << [threshold |-> 150, rgb |-> <<30, 50, 120>>],
       [threshold |-> 300, rgb |-> <<50, 80, 160>>],
       [threshold |-> 450, rgb |-> <<70, 120, 200>>],
       [threshold |-> 600, rgb |-> <<100, 160, 220>>],
       [threshold |-> 750, rgb |-> <<140, 200, 235>>],
       [threshold |-> 900, rgb |-> <<180, 225, 245>>],
       [threshold |-> 2000, rgb |-> <<220, 245, 255>> ] >>

\* The loop of getStyle: the first stop (1-based) whose threshold exceeds t, and
\* the last stop when none does.
RECURSIVE gradientStopFrom(_, _)
gradientStopFrom(t, i) ==
    IF i > Len(colorGradient) THEN Len(colorGradient)
    ELSE IF Less(t, Lit(colorGradient[i].threshold)) THEN i
    ELSE gradientStopFrom(t, i + 1)

gradientStop(t) == gradientStopFrom(t, 1)

getStyle(normalizedZ, layerFactor) ==
    colorGradient[gradientStop(Plus(Times(normalizedZ, Lit(600)),
                                    Times(layerFactor, Lit(400))))].rgb

----------------------------------------------------------------------------
(* Renderer: rasterizer.  Each drawing routine is the sequence of setCell
   calls it issues, [x, y, char, depth, style], applied in order. *)

\* A panic (an index out of range) ends the run: no later write happens.
RECURSIVE ApplyWrites(_, _, _)
ApplyWrites(rr, ws, i) ==
    IF i > Len(ws) \/ rr.panicked THEN rr
    ELSE ApplyWrites(setCell(rr, ws[i].x, ws[i].y, ws[i].char, ws[i].depth, ws[i].style),
                     ws, i + 1)

\* The loop of drawShadedLine from (x, y) on: the cells it visits.
RECURSIVE LineCells(_, _, _, _, _, _, _, _, _, _, _)
LineCells(x, y, x2, y2, dx, dy, sx, sy, err, steps, maxSteps) ==
    IF steps >= maxSteps THEN <<>>
    ELSE IF x = x2 /\ y = y2 THEN << <<x, y>> >>
    ELSE LET e2 == 2 * err
             mx == e2 > -dy
             my == e2 < dx
         IN  << <<x, y>> >> \o
             LineCells(IF mx THEN x + sx ELSE x, IF my THEN y + sy ELSE y, x2, y2,
                       dx, dy, sx, sy,
                       err - (IF mx THEN dy ELSE 0) + (IF my THEN dx ELSE 0),
                       steps + 1, maxSteps)

\* drawShadedLine with the step bound taken as the longer side only.
drawShadedLineShortBound(x1, y1, x2, y2, depth, normalizedZ, layerFactor, style) ==
    LET dx == abs(x2 - x1)
        dy == abs(y2 - y1)
        sx == IF x1 > x2 THEN -1 ELSE 1
        sy == IF y1 > y2 THEN -1 ELSE 1
        lineChar == IF dy > dx THEN "|" ELSE getShadeChar(normalizedZ, layerFactor)
        cells == LineCells(x1, y1, x2, y2, dx, dy, sx, sy, dx - dy, 0, Max2(dx, dy))
    IN  [i \in 1 .. Len(cells) |->
            [x |-> cells[i][1], y |-> cells[i][2], char |-> lineChar,
             depth |-> depth, style |-> style]]

drawShadedLine(x1, y1, x2, y2, depth, normalizedZ, layerFactor, style) ==
    LET dx == abs(x2 - x1)
        dy == abs(y2 - y1)
        sx == IF x1 > x2 THEN -1 ELSE 1
        sy == IF y1 > y2 THEN -1 ELSE 1
        lineChar == IF dy > dx THEN "|" ELSE getShadeChar(normalizedZ, layerFactor)
        cells == LineCells(x1, y1, x2, y2, dx, dy, sx, sy, dx - dy, 0, dx + dy + 1)
    IN  [i \in 1 .. Len(cells) |->
            [x |-> cells[i][1], y |-> cells[i][2], char |-> lineChar,
             depth |-> depth, style |-> style]]

drawVerticalFill(x1, y1, x2, y2, depth, normalizedZ, layerFactor, style) ==
    IF y1 = y2 THEN <<>>
    ELSE LET dy == abs(y2 - y1)
             sy == IF y2 - y1 < 0 THEN -1 ELSE 1
             char == getBlockChar(normalizedZ, layerFactor)
         IN  [i \in 1 .. dy + 1 |->
                 [x |-> x1, y |-> y1 + (i - 1) * sy, char |-> char,
                  depth |-> depth, style |-> style]]

\* w.Points, the grid renderer.go draws.  No file of the repository as given
\* declares this field: the Wave of surface.go has GridPoints only.  Following
\* the specification, where the rasterizer draws the points the surface model
\* recomputes each tick, Points is taken to be that grid, rows = layer index,
\* columns = sample index.
Points(w) == w.GridPoints

\* (p.Z - minZ) / zRange
NormZ(z, minZ, zRange) == Over(Minus(Lit(z), minZ), zRange)

\* The horizontal line of renderWaveSegment, from the projection s1 of p1 to the
\* projection s2 of p2: avgDepth := (d1 + d2) / 2.
segmentLine(s1, s2, avgZ, layerFactor, style) ==
    drawShadedLine(s1.x, s1.y, s2.x, s2.y, Over(Plus(s1.depth, s2.depth), IntF(2)),
                   avgZ, layerFactor, style)

\* The vertical fill of renderWaveSegment, from s1 to the projection s3 of p3.
segmentFill(s1, s3, normalizedZ, layerFactor, style) ==
    drawVerticalFill(s1.x, s1.y, s3.x, s3.y, Over(Plus(s1.depth, s3.depth), IntF(2)),
                     normalizedZ, layerFactor, style)

\* renderWaveSegment from the projection s1 of p1 and the style of p1 on.
segmentWrites(rr, w, layer, i, layerFactor, minZ, zRange, s1, style) ==
    LET numLayers == Size(w)[1]
        numPoints == Size(w)[2]
        p1 == Points(w)[layer][i]
        normalizedZ == NormZ(p1.Z, minZ, zRange)
    IN  (IF i < numPoints - 1
         THEN segmentLine(s1, project3D(rr, Points(w)[layer][i + 1]),
                          Over(Plus(NormZ(p1.Z, minZ, zRange),
                                    NormZ(Points(w)[layer][i + 1].Z, minZ, zRange)), IntF(2)),
                          layerFactor, style)
         ELSE <<>>)
        \o (IF layer < numLayers - 1
            THEN segmentFill(s1, project3D(rr, Points(w)[layer + 1][i]), normalizedZ,
                             layerFactor, style)
            ELSE <<>>)
        \o << [x |-> s1.x, y |-> s1.y, char |-> getShadeChar(normalizedZ, layerFactor),
               depth |-> s1.depth, style |-> style] >>

renderWaveSegment(rr, w, layer, i, layerFactor, minZ, zRange) ==
    segmentWrites(rr, w, layer, i, layerFactor, minZ, zRange,
                  project3D(rr, Points(w)[layer][i]),
                  getStyle(NormZ(Points(w)[layer][i].Z, minZ, zRange), layerFactor))

\* The two loops of RenderWave from segment number k (layer-major) on.
RECURSIVE RenderWrites(_, _, _, _, _)
RenderWrites(rr, w, minZ, zRange, k) ==
    LET numLayers == Size(w)[1]
        numPoints == Size(w)[2]
    IN  IF k >= numLayers * numPoints THEN <<>>
        ELSE LET layer == k \div numPoints
                 i == k % numPoints
                 layerFactor == Over(IntF(layer), IntF(numLayers - 1))
             IN  renderWaveSegment(rr, w, layer, i, layerFactor, minZ, zRange)
                 \o RenderWrites(rr, w, minZ, zRange, k + 1)

\* zRange := maxZ - minZ; if zRange == 0 { zRange = 1 }
ZRange(w) ==
    LET zRange == Minus(Lit(w.MaxZ), Lit(w.MinZ))
    IN  IF IsZero(zRange) THEN IntF(1) ELSE zRange

RenderWave(rr, w) ==
    ApplyWrites(rr, RenderWrites(rr, w, Lit(w.MinZ), ZRange(w), 0), 1)

\* The normalizedZ arguments renderWaveSegment hands to the lookups for one
\* segment: getShadeChar and getStyle for the point, getShadeChar inside
\* drawShadedLine when the line is not steep, getBlockChar inside drawVerticalFill
\* when the two rows differ.
\* dy > dx in drawShadedLine: the line from s1 to s2 is drawn with '|'.
Steep(s1, s2) == abs(s2.y - s1.y) > abs(s2.x - s1.x)

segmentLookups(rr, w, layer, i, minZ, zRange) ==
    LET numLayers == Size(w)[1]
        numPoints == Size(w)[2]
        p1 == Points(w)[layer][i]
        normalizedZ == NormZ(p1.Z, minZ, zRange)
    IN  {[fn |-> "getShadeChar", normalizedZ |-> normalizedZ],
         [fn |-> "getStyle", normalizedZ |-> normalizedZ]}
        \cup (IF i < numPoints - 1
                 /\ ~Steep(project3D(rr, p1), project3D(rr, Points(w)[layer][i + 1]))
              THEN {[fn |-> "getShadeChar",
                     normalizedZ |-> Over(Plus(NormZ(p1.Z, minZ, zRange),
                                               NormZ(Points(w)[layer][i + 1].Z, minZ, zRange)),
                                          IntF(2))]}
              ELSE {})
        \cup (IF layer < numLayers - 1
                 /\ project3D(rr, p1).y # project3D(rr, Points(w)[layer + 1][i]).y
              THEN {[fn |-> "getBlockChar", normalizedZ |-> normalizedZ]}
              ELSE {})

\* All lookups of one RenderWave call.
RenderLookups(rr, w) ==
    UNION {segmentLookups(rr, w, layer, i, Lit(w.MinZ), ZRange(w)) :
               layer \in 0 .. Size(w)[1] - 1, i \in 0 .. Size(w)[2] - 1}

----------------------------------------------------------------------------
(* Application: the tick loop of Run *)

\* What screen.Size() may return: each side 1, typical or large.  From MidDim
\* columns on the projection of the surface runs past both the left and the
\* right edge of the frame, as it does at 80 and at 400 columns.
Dims == {1, MidDim, BigDim}
Sizes == Dims \X Dims

\* The sizes the terminal takes while the whole of Run is explored, quit paths
\* included: the smallest one and a typical one.
LoopSizes == {<<1, 1>>, <<MidDim, BigDim>>}

\* Frames of the buffer harness.
FrameSizes == (1 .. MaxDim) \X (1 .. MaxDim)

NoEvent == [type |-> "none", key |-> "", rune |-> ""]
ResizeEvent == [type |-> "resize", key |-> "", rune |-> ""]
KeyEvents ==
    {[type |-> "key", key |-> "KeyEscape", rune |-> ""],
     [type |-> "key", key |-> "KeyCtrlC", rune |-> ""],
     [type |-> "key", key |-> "KeyEnter", rune |-> ""],
     [type |-> "key", key |-> "KeyRune", rune |-> "q"],
     [type |-> "key", key |-> "KeyRune", rune |-> "Q"],
     [type |-> "key", key |-> "KeyRune", rune |-> "x"]}

\* handleEvent without the KeyCtrlC case.
\* A key that does not quit.
PlainKeys == {[type |-> "key", key |-> "KeyRune", rune |-> "x"]}

handleEventNoCtrlC(ev) ==
    IF ev.type = "key"
    THEN IF ev.key \in {"KeyEscape"} THEN TRUE
         ELSE IF ev.key = "KeyRune" THEN ev.rune = "q" \/ ev.rune = "Q"
         ELSE FALSE
    ELSE FALSE

\* handleEvent's result: whether the application should quit.
handleEvent(ev) ==
    IF ev.type = "key"
    THEN IF ev.key \in {"KeyEscape", "KeyCtrlC"} THEN TRUE
         ELSE IF ev.key = "KeyRune" THEN ev.rune = "q" \/ ev.rune = "Q"
         ELSE FALSE
    ELSE FALSE

\* render calling RenderWave before Clear.
StepAfterSwapped(pc) ==
    CASE pc = "update" -> "render"
      [] pc = "render" -> "clear"
      [] pc = "clear" -> "flush"
      [] pc = "flush" -> "advance"
      [] pc = "advance" -> "loop"

\* The statement that follows each statement of a tick
\* (update; render = Clear, RenderWave, Flush; t += 0.08; back to the loop test).
StepAfter(pc) ==
    CASE pc = "update" -> "clear"
      [] pc = "clear" -> "render"
      [] pc = "render" -> "flush"
      [] pc = "flush" -> "advance"
      [] pc = "advance" -> "loop"

\* A panic unwinds the caller; otherwise control goes where the code says.
Goto(rr, pc) == IF rr.panicked THEN "panic" ELSE pc

\* The screen after a step of Run that leaves control at pc: when Run returns or
\* a panic unwinds it, the deferred a.screen.Fini() runs.
Deferred(s, pc) == IF pc \in {"done", "panic"} THEN [s EXCEPT !.fini = TRUE] ELSE s

TimeStep == 80

NoHistory ==
    [consumed |-> NoEvent, polled |-> 0, seen |-> <<0, 0>>, log |-> <<>>,
     updates |-> 0, clears |-> 0, renders |-> 0, flushes |-> 0,
     aimed |-> <<>>, nWrites |-> 0, nDropped |-> 0, preFlush |-> <<>>,
     carried |-> FALSE, calls |-> <<>>, last |-> "new", lookups |-> {},
     line |-> <<>>, lineArgs |-> <<>>, pending |-> <<>>]

NoPal == [arch |-> "amd64", s1 |-> 0, s2 |-> 0, looked |-> FALSE,
          shade1 |-> 0, shade2 |-> 0, block1 |-> 0, block2 |-> 0,
          stop1 |-> 0, stop2 |-> 0]

\* app.New: the screen is initialised, the renderer sized to it, the wave built.
InitAt(sizes) ==
    /\ \E size \in sizes :
          /\ scr = [size |-> size, events |-> <<>>, cells |-> {}, fini |-> FALSE]
          /\ r = NewRenderer(size)
    /\ wave = NewWave
    /\ app = [pc |-> "start", t |-> 0, n |-> 0, sig |-> 0, ret |-> "running",
              running |-> TRUE, stop |-> "no"]
    /\ aux = NoHistory
    /\ pal = NoPal

Init == InitAt(LoopSizes)

\* Run has returned, or a panic has unwound it.
Returned == app.pc \in {"done", "panic"}

\* Stop(): a.running = false, whenever it is called.  Called before Run the
\* write is ordered before Run's reads; called while Run is running it comes
\* from another goroutine and is not synchronised with the loop test; called
\* after Run has returned it only changes the field.  (One call is modelled.)
Stop ==
    /\ app.stop = "no"
    /\ app' = [app EXCEPT !.running = FALSE,
                          !.stop = IF app.pc = "start" THEN "before"
                                   ELSE IF Returned THEN "after"
                                   ELSE "during"]
    /\ UNCHANGED <<r, scr, wave, aux, pal>>

\* Run is entered: defer Fini, signal.Notify, the ticker, t := 0.0.
RunEnter ==
    /\ app.pc = "start"
    /\ app' = [app EXCEPT !.pc = "loop", !.t = 0]
    /\ UNCHANGED <<r, scr, wave, aux, pal>>

\* The values the loop test may read from a.running: what the field holds,
\* and, when Stop wrote it unsynchronised, also the value from before the write.
RunningReads ==
    IF app.stop = "during" THEN {TRUE, FALSE} ELSE {app.running}

\* for a.running: the test passes and the select is entered.
RunLoopEnter ==
    /\ app.pc = "loop"
    /\ TRUE \in RunningReads
    /\ app' = [app EXCEPT !.pc = "select"]
    /\ UNCHANGED <<r, scr, wave, aux, pal>>

\* for a.running: the test fails; return nil (the deferred screen.Fini() runs).
RunLoopExit ==
    /\ app.pc = "loop"
    /\ FALSE \in RunningReads
    /\ app' = [app EXCEPT !.pc = "done", !.ret = "nil"]
    /\ scr' = Deferred(scr, "done")
    /\ UNCHANGED <<r, wave, aux, pal>>

\* The user presses one of the given keys: tcell's input goroutine queues the
\* event.  It does so from screen.Init() until Fini(), whatever Run is doing.
KeyPressOf(keys) ==
    /\ ~scr.fini
    /\ Len(scr.events) < MaxQueue
    /\ \E ev \in keys : scr' = [scr EXCEPT !.events = Append(@, ev)]
    /\ UNCHANGED <<r, wave, app, aux, pal>>

KeyPress == KeyPressOf(KeyEvents)

\* The terminal takes one of the given sizes, or reports its size again: tcell
\* records the size and posts EventResize, from screen.Init() until Fini(),
\* whatever Run is doing.
TerminalResizeTo(sizes) ==
    /\ ~scr.fini
    /\ Len(scr.events) < MaxQueue
    /\ \E size \in sizes :
          scr' = [scr EXCEPT !.size = size, !.events = Append(@, ResizeEvent)]
    /\ UNCHANGED <<r, wave, app, aux, pal>>

TerminalResize == TerminalResizeTo(LoopSizes)

\* SIGINT or SIGTERM reaches sigChan (capacity 1; a second one is dropped).
\* The channel exists, and signal.Notify has been called, only once Run is entered.
Signal ==
    /\ app.pc \notin {"start", "done", "panic"}
    /\ app.sig = 0
    /\ app' = [app EXCEPT !.sig = 1]
    /\ UNCHANGED <<r, scr, wave, aux, pal>>

\* case <-sigChan: return nil (the deferred screen.Fini() runs).
RunSignal ==
    /\ app.pc = "select"
    /\ app.sig = 1
    /\ app' = [app EXCEPT !.pc = "done", !.sig = 0, !.ret = "nil"]
    /\ scr' = Deferred(scr, "done")
    /\ UNCHANGED <<r, wave, aux, pal>>

\* case <-ticker.C, and HasPendingEvent() is false.
RunTickIdle ==
    /\ app.pc = "select"
    /\ app.n < MaxTicks
    /\ scr.events = <<>>
    /\ app' = [app EXCEPT !.pc = "update"]
    /\ aux' = [aux EXCEPT !.log = <<"poll">>, !.consumed = NoEvent, !.polled = 0,
                          !.pending = scr.events]
    /\ UNCHANGED <<r, scr, wave, pal>>

\* case <-ticker.C, and HasPendingEvent() is true.
RunTickPending ==
    /\ app.pc = "select"
    /\ app.n < MaxTicks
    /\ scr.events # <<>>
    /\ app' = [app EXCEPT !.pc = "poll"]
    /\ aux' = [aux EXCEPT !.consumed = NoEvent, !.polled = 0, !.pending = scr.events]
    /\ UNCHANGED <<r, scr, wave, pal>>

\* ev := PollEvent(); handleEvent(ev) up to its result for a key, and up to
\* the EventResize case for a resize.
RunPoll ==
    /\ app.pc = "poll"
    /\ scr.events # <<>>
    /\ LET ev == Head(scr.events)
           pc == IF handleEvent(ev) THEN "done"
                 ELSE IF ev.type = "resize" THEN "resize"
                 ELSE "update"
       IN  /\ app' = [app EXCEPT !.pc = pc, !.ret = IF pc = "done" THEN "nil" ELSE @]
           /\ scr' = Deferred([scr EXCEPT !.events = Tail(@)], pc)
           /\ aux' = [aux EXCEPT !.log = <<"poll">>, !.consumed = ev, !.polled = 1]
    /\ UNCHANGED <<r, wave, pal>>

\* handleEvent, case *tcell.EventResize: a.screen.Sync(); a.renderer.Resize(),
\* which reads the size the screen reports at that moment.
RunResize ==
    /\ app.pc = "resize"
    /\ r' = Resize(r, scr.size)
    /\ app' = [app EXCEPT !.pc = Goto(r', "update")]
    /\ scr' = Deferred(scr, app'.pc)
    /\ aux' = [aux EXCEPT !.seen = scr.size]
    /\ UNCHANGED <<wave, pal>>

\* a.update(t)
RunUpdate ==
    /\ app.pc = "update"
    /\ wave' = Update(wave, app.t)
    /\ app' = [app EXCEPT !.pc = StepAfter("update")]
    /\ aux' = [aux EXCEPT !.log = Append(@, "update"), !.updates = @ + 1]
    /\ UNCHANGED <<r, scr, pal>>

\* a.renderer.Clear(), which also clears the screen
RunClear ==
    /\ app.pc = "clear"
    /\ r' = Clear(r)
    /\ app' = [app EXCEPT !.pc = Goto(r', StepAfter("clear"))]
    /\ scr' = Deferred([scr EXCEPT !.cells = {}], app'.pc)
    /\ aux' = [aux EXCEPT !.log = Append(@, "clear"), !.clears = @ + 1]
    /\ UNCHANGED <<wave, pal>>

\* a.renderer.RenderWave(a.wave)
RunRenderWave ==
    /\ app.pc = "render"
    /\ r' = RenderWave(r, wave)
    /\ app' = [app EXCEPT !.pc = Goto(r', StepAfter("render"))]
    /\ scr' = Deferred(scr, app'.pc)
    /\ aux' = [aux EXCEPT !.log = Append(@, "render"), !.renders = @ + 1]
    /\ UNCHANGED <<wave, pal>>

\* a.renderer.Flush()
RunFlush ==
    /\ app.pc = "flush"
    /\ r' = Flush(r)
    /\ app' = [app EXCEPT !.pc = Goto(r', StepAfter("flush"))]
    /\ scr' = Deferred([scr EXCEPT !.cells = FlushContent(r)], app'.pc)
    /\ aux' = [aux EXCEPT !.log = Append(@, "flush"), !.flushes = @ + 1]
    /\ UNCHANGED <<wave, pal>>

\* t += 0.08, and back to the top of the loop
RunAdvance ==
    /\ app.pc = "advance"
    /\ app' = [app EXCEPT !.pc = StepAfter("advance"), !.t = @ + TimeStep, !.n = @ + 1]
    /\ aux' = [aux EXCEPT !.log = <<>>, !.consumed = NoEvent, !.polled = 0,
                          !.seen = <<0, 0>>, !.pending = <<>>]
    /\ UNCHANGED <<r, scr, wave, pal>>

Next ==
    \/ KeyPress
    \/ TerminalResize
    \/ Signal
    \/ Stop
    \/ RunEnter
    \/ RunLoopEnter
    \/ RunLoopExit
    \/ RunSignal
    \/ RunTickIdle
    \/ RunTickPending
    \/ RunPoll
    \/ RunResize
    \/ RunUpdate
    \/ RunClear
    \/ RunRenderWave
    \/ RunFlush
    \/ RunAdvance

Spec == Init /\ [][Next]_vars

\* Run under resizes to every size, with keys that do not quit and without
\* Stop and signals, so that it keeps ticking: the part of Spec's behaviours in
\* which the frame changes, over all sizes.
InitResize == InitAt(Sizes)

PlainKeyPress == KeyPressOf(PlainKeys)

AnyResize == TerminalResizeTo(Sizes)

NextResize ==
    \/ PlainKeyPress
    \/ AnyResize
    \/ RunEnter
    \/ RunLoopEnter
    \/ RunTickIdle
    \/ RunTickPending
    \/ RunPoll
    \/ RunResize
    \/ RunUpdate
    \/ RunClear
    \/ RunRenderWave
    \/ RunFlush
    \/ RunAdvance

SpecResize == InitResize /\ [][NextResize]_vars

\* The statements of a tick between the poll and t += 0.08.
TickBody == {"update", "clear", "render", "flush"}

\* Control moves from one statement of the tick's body to the next: what
\* RunUpdate, RunClear, RunRenderWave and RunFlush do to app.
BodyStep ==
    /\ app.pc \in TickBody
    /\ app' = [app EXCEPT !.pc = StepAfter(app.pc)]

\* Between the poll and the end of a tick Run executes straight-line code that
\* waits for nothing: update, Clear, RenderWave, Flush, t += 0.08.  Control
\* therefore does not stay forever at a statement of the body.
FairSpec ==
    /\ Spec
    /\ WF_app(BodyStep)
    /\ WF_vars(RunAdvance)

----------------------------------------------------------------------------
(* Frame-buffer harness: one renderer driven through ticks of arbitrary
   setCell calls, in the order Run uses it:
   [Resize] Clear setCell* Flush, repeated. *)

Pens == {[char |-> "a", style |-> <<30, 50, 120>>],
         [char |-> "b", style |-> <<220, 245, 255>>]}

Depths == {Lit(NegMaxFloat64), Lit(-500), Lit(500), Lit(1000)}

\* The cells of a width x height terminal, as <<row, column>>.
Grid(rr) == (0 .. rr.height - 1) \X (0 .. rr.width - 1)

InitBuf ==
    /\ \E size \in FrameSizes :
          /\ scr = [size |-> size, events |-> <<>>, cells |-> {}, fini |-> FALSE]
          /\ r = NewRenderer(size)
    /\ wave = NewWave
    /\ app = [pc |-> "start", t |-> 0, n |-> 0, sig |-> 0, ret |-> "running"]
    /\ aux = NoHistory
    /\ pal = NoPal

BufResize ==
    /\ app.pc \in {"start", "flushed"}
    /\ \E size \in FrameSizes \ {scr.size} :
          /\ scr' = [scr EXCEPT !.size = size]
          /\ r' = Resize(r, size)
    /\ app' = [app EXCEPT !.pc = "alloc"]
    /\ aux' = [NoHistory EXCEPT !.last = "Resize"]
    /\ UNCHANGED <<wave, pal>>

BufClear ==
    /\ app.pc \in {"start", "alloc", "flushed"}
    /\ r' = Clear(r)
    /\ scr' = [scr EXCEPT !.cells = {}]
    /\ app' = [app EXCEPT !.pc = Goto(r', "raster")]
    /\ aux' = [NoHistory EXCEPT !.aimed = [c \in Grid(r) |-> <<>>], !.last = "Clear",
                                !.carried = r.buffer[0][0].set]
    /\ UNCHANGED <<wave, pal>>

BufSetCell ==
    /\ app.pc = "raster"
    /\ aux.nWrites < MaxWrites
    /\ \E x \in -1 .. r.width, y \in -1 .. r.height, pen \in Pens, depth \in Depths :
          /\ r' = setCell(r, x, y, pen.char, depth, pen.style)
          /\ aux' = IF <<y, x>> \in Grid(r)
                    THEN [aux EXCEPT !.nWrites = @ + 1, !.last = "setCell",
                                     !.aimed[<<y, x>>] =
                                         Append(@, [char |-> pen.char, style |-> pen.style,
                                                    depth |-> depth])]
                    ELSE [aux EXCEPT !.nWrites = @ + 1, !.nDropped = @ + 1,
                                     !.last = "dropped"]
    /\ app' = [app EXCEPT !.pc = Goto(r', "raster")]
    /\ UNCHANGED <<scr, wave, pal>>

BufFlush ==
    /\ app.pc = "raster"
    /\ r' = Flush(r)
    /\ scr' = [scr EXCEPT !.cells = FlushContent(r)]
    /\ app' = [app EXCEPT !.pc = Goto(r', "flushed")]
    /\ aux' = [aux EXCEPT !.preFlush = r.buffer, !.last = "Flush"]
    /\ UNCHANGED <<wave, pal>>

NextBuf ==
    \/ BufResize
    \/ BufClear
    \/ BufSetCell
    \/ BufFlush

SpecBuf == InitBuf /\ [][NextBuf]_vars

----------------------------------------------------------------------------
(* Surface harness: one Wave updated at arbitrary times, in any order. *)

TimeVals == {TimeStep * k : k \in 0 .. MaxTime}

InitWave ==
    /\ scr = [size |-> <<1, 1>>, events |-> <<>>, cells |-> {}, fini |-> FALSE]
    /\ r = NewRenderer(<<1, 1>>)
    /\ wave = NewWave
    /\ app = [pc |-> "wave", t |-> 0, n |-> 0, sig |-> 0, ret |-> "running"]
    /\ aux = NoHistory
    /\ pal = NoPal

WaveUpdate ==
    /\ app.pc = "wave"
    /\ Len(aux.calls) < MaxCalls
    /\ \E t \in TimeVals :
          /\ wave' = Update(wave, t)
          /\ aux' = [aux EXCEPT !.calls = Append(@, t), !.last = "Update"]
    /\ UNCHANGED <<r, scr, app, pal>>

NextWave == WaveUpdate

SpecWave == InitWave /\ [][NextWave]_vars

----------------------------------------------------------------------------
(* Palette harness: two shade values looked up in both glyph palettes and in
   the colour gradient, on either build target. *)

\* The shade values looked up.  mapToChar takes any float64: getShadeChar and
\* getBlockChar pass normalizedZ * w1 + layerFactor * w2 with normalizedZ as
\* renderWaveSegment computed it, unclamped, so a sample outside [MinZ, MaxZ]
\* gives a shade below 0 or above 1, and a sample far outside it (or a range
\* close to zero) a shade whose product with the palette size is beyond the
\* range of int; the two extreme values stand for such shades.
ShadeVals == {-500 + 125 * k : k \in 0 .. ShadeSteps} \cup {NegMaxFloat64, MaxFloat64}

InitPal ==
    /\ scr = [size |-> <<1, 1>>, events |-> <<>>, cells |-> {}, fini |-> FALSE]
    /\ r = NewRenderer(<<1, 1>>)
    /\ wave = NewWave
    /\ app = [pc |-> "palette", t |-> 0, n |-> 0, sig |-> 0, ret |-> "running"]
    /\ aux = NoHistory
    /\ \E arch \in GoArchs, s1 \in ShadeVals, s2 \in ShadeVals :
          pal = [NoPal EXCEPT !.arch = arch, !.s1 = s1, !.s2 = s2]

PalLookup ==
    /\ app.pc = "palette"
    /\ ~pal.looked
    /\ pal' = [pal EXCEPT !.looked = TRUE,
                          !.shade1 = mapToIndex(Lit(pal.s1), Len(shadeChars)),
                          !.shade2 = mapToIndex(Lit(pal.s2), Len(shadeChars)),
                          !.block1 = mapToIndex(Lit(pal.s1), Len(blockChars)),
                          !.block2 = mapToIndex(Lit(pal.s2), Len(blockChars)),
                          !.stop1 = gradientStop(Lit(pal.s1)),
                          !.stop2 = gradientStop(Lit(pal.s2))]
    /\ UNCHANGED <<r, scr, wave, app, aux>>

NextPal == PalLookup

SpecPal == InitPal /\ [][NextPal]_vars

----------------------------------------------------------------------------
(* Normalisation harness: RenderWave called on a Wave whose exported MinZ and
   MaxZ are whatever its holder left in them: the values Update computed, values
   a little inside the samples, or a single value (zero range). *)

NormSlack == {0, 1, 10}

NormRanges(w) ==
    {<<w.MinZ + a, w.MaxZ - b>> : a \in NormSlack, b \in NormSlack}
        \cup {<<w.MinZ, w.MinZ>>, <<w.MaxZ, w.MaxZ>>}

NormWaves ==
    {NewWave} \cup
    UNION {{[Update(NewWave, t) EXCEPT !.MinZ = rg[1], !.MaxZ = rg[2]] :
                rg \in NormRanges(Update(NewWave, t))} : t \in TimeVals}

InitNorm ==
    /\ \E size \in Sizes :
          /\ scr = [size |-> size, events |-> <<>>, cells |-> {}, fini |-> FALSE]
          /\ r = Clear(NewRenderer(size))
    /\ wave \in NormWaves
    /\ app = [pc |-> "norm", t |-> 0, n |-> 0, sig |-> 0, ret |-> "running"]
    /\ aux = NoHistory
    /\ pal = NoPal

NormRender ==
    /\ app.pc = "norm"
    /\ r' = RenderWave(r, wave)
    /\ app' = [app EXCEPT !.pc = Goto(r', "normDone")]
    /\ aux' = [aux EXCEPT !.lookups = RenderLookups(r, wave), !.last = "RenderWave"]
    /\ UNCHANGED <<scr, wave, pal>>

NextNorm == NormRender

SpecNorm == InitNorm /\ [][NextNorm]_vars

----------------------------------------------------------------------------
(* Line harness: drawShadedLine called as renderWaveSegment calls it, with the
   average of two endpoint depths, between arbitrary endpoints on and around a
   cleared frame. *)

LineCoords == -LineSpan .. LineSpan
LineDepths == {-500, 1000}
LineShades == {0, 1000}

InitLine ==
    /\ scr = [size |-> <<2, 2>>, events |-> <<>>, cells |-> {}, fini |-> FALSE]
    /\ r = Clear(NewRenderer(<<2, 2>>))
    /\ wave = NewWave
    /\ app = [pc |-> "line", t |-> 0, n |-> 0, sig |-> 0, ret |-> "running"]
    /\ aux = NoHistory
    /\ pal = NoPal

LineDraw ==
    /\ app.pc = "line"
    /\ \E x1 \in LineCoords, y1 \in LineCoords, x2 \in LineCoords, y2 \in LineCoords,
          d1 \in LineDepths, d2 \in LineDepths,
          normalizedZ \in LineShades, layerFactor \in LineShades :
          LET style == getStyle(Lit(normalizedZ), Lit(layerFactor))
              ws == drawShadedLine(x1, y1, x2, y2, Over(Plus(Lit(d1), Lit(d2)), IntF(2)),
                                   Lit(normalizedZ), Lit(layerFactor), style)
          IN  /\ r' = ApplyWrites(r, ws, 1)
              /\ aux' = [aux EXCEPT !.line = ws, !.last = "drawShadedLine",
                                    !.lineArgs = [x1 |-> x1, y1 |-> y1, x2 |-> x2, y2 |-> y2,
                                                  d1 |-> d1, d2 |-> d2,
                                                  normalizedZ |-> normalizedZ,
                                                  layerFactor |-> layerFactor]]
    /\ app' = [app EXCEPT !.pc = Goto(r', "lineDone")]
    /\ UNCHANGED <<scr, wave, pal>>

NextLine == LineDraw

SpecLine == InitLine /\ [][NextLine]_vars

----------------------------------------------------------------------------
(* Properties of the frame buffer (checked under SpecBuf) *)

\* A Clear has happened since the buffer was allocated: the tick is under way.
InTick == app.pc \in {"raster", "flushed"}

\* The writes aimed at cell c since the last Clear, in order.
Aimed(c) == aux.aimed[c]

\* Write number i at a cell is the earliest of the deepest ones.
EarliestDeepest(ws, i) ==
    /\ \A j \in 1 .. Len(ws) : ~Less(ws[i].depth, ws[j].depth)
    /\ \A j \in 1 .. i - 1 : Less(ws[j].depth, ws[i].depth)

\* Write number i passed the depth test: it is deeper than the cleared cell and
\* than everything written to the cell before it.
Passed(ws, i) ==
    /\ Less(Lit(NegMaxFloat64), ws[i].depth)
    /\ \A j \in 1 .. i - 1 : Less(ws[j].depth, ws[i].depth)

\* C1: max-depth-wins.  After any sequence of setCell calls since the last Clear,
\* every in-bounds cell that got a passing write holds the character, style and
\* depth of the deepest write aimed at it, the earliest one on equal depths.
C1_MaxDepthWins ==
    InTick =>
        \A c \in Grid(r) :
            (\E i \in 1 .. Len(Aimed(c)) : Passed(Aimed(c), i)) =>
                \E i \in 1 .. Len(Aimed(c)) :
                    /\ EarliestDeepest(Aimed(c), i)
                    /\ r.buffer[c[1]][c[2]] =
                           [char |-> Aimed(c)[i].char, style |-> Aimed(c)[i].style,
                            depth |-> Aimed(c)[i].depth, set |-> TRUE]

\* Depth 1.0 then 0.5 at one cell, with different characters: the first stays.
C1_Witness ==
    /\ InTick
    /\ \E c \in Grid(r) :
          /\ Len(Aimed(c)) = 2
          /\ Aimed(c)[1].depth = Lit(1000)
          /\ Aimed(c)[2].depth = Lit(500)
          /\ Aimed(c)[1].char # Aimed(c)[2].char
          /\ r.buffer[c[1]][c[2]].char = Aimed(c)[1].char

\* C2: occupancy is exact per tick.  A cell is occupied iff a write to it passed
\* the depth test since this tick's Clear; Flush hands the display exactly the
\* occupied cells and leaves the buffer as it was.
C2_OccupancyExact ==
    /\ InTick =>
          \A c \in Grid(r) :
              r.buffer[c[1]][c[2]].set <=>
                  (\E i \in 1 .. Len(Aimed(c)) : Passed(Aimed(c), i))
    /\ app.pc = "flushed" =>
          /\ r.buffer = aux.preFlush
          /\ scr.cells = {[x |-> c[2], y |-> c[1], char |-> r.buffer[c[1]][c[2]].char,
                           style |-> r.buffer[c[1]][c[2]].style] :
                             c \in {d \in Grid(r) : r.buffer[d[1]][d[2]].set}}

\* The corner cell was occupied in the previous tick, is not in this one, and
\* this tick's Flush sent a different cell.
C2_Witness ==
    /\ app.pc = "flushed"
    /\ aux.carried
    /\ ~r.buffer[0][0].set
    /\ scr.cells # {}

\* C3: a setCell call outside the terminal is dropped: no panic, no cell changed.
C3_OutOfBoundsDropped ==
    [][(app.pc = "raster" /\ aux'.last = "dropped" /\ aux'.nDropped = aux.nDropped + 1)
          => (r' = r /\ ~r'.panicked /\ app'.pc = "raster")]_vars

\* An out-of-bounds write has just been dropped in a tick that has occupied cells.
C3_Witness ==
    /\ app.pc = "raster"
    /\ aux.last = "dropped"
    /\ \E c \in Grid(r) : r.buffer[c[1]][c[2]].set

----------------------------------------------------------------------------
(* Properties of the tick loop (checked under Spec) *)

\* The setCell calls RenderWave issues for the current renderer and wave.
PendingWrites == RenderWrites(r, wave, Lit(wave.MinZ), ZRange(wave), 0)

\* C4: whatever resizes arrive between ticks (one, two before the same tick, one
\* behind a key, one reporting the size the renderer already has), the buffer is
\* always exactly height rows of width cells, a handled resize leaves a fresh
\* buffer of the size the screen reports, and every access of Clear, setCell and
\* Flush falls inside the buffer of the moment.
C4_ResizeInBounds ==
    /\ ~r.panicked
    /\ app.pc # "panic"
    /\ DOMAIN r.buffer = 0 .. r.height - 1
    /\ \A y \in DOMAIN r.buffer : DOMAIN r.buffer[y] = 0 .. r.width - 1
    /\ r.acc \subseteq Grid(r)
    /\ (aux.consumed.type = "resize" /\ app.pc \in {"update", "clear"}) =>
          /\ <<r.width, r.height>> = aux.seen
          /\ \A c \in Grid(r) : r.buffer[c[1]][c[2]] = ZeroCell

\* Two resizes arrived before one tick, the second to a wide terminal of one
\* row.  The tick handled the first of them, reading the size of the moment,
\* then cleared, rendered and flushed: RenderWave aimed left of column 0 and
\* right of the last column as well as inside the frame, and every cell of the
\* new buffer was accessed.
C4_Witness ==
    /\ app.pc = "advance"
    /\ Len(aux.pending) = 2
    /\ aux.pending[1].type = "resize"
    /\ aux.pending[2].type = "resize"
    /\ r.width = BigDim
    /\ r.height = 1
    /\ r.acc = Grid(r)
    /\ \E c \in Grid(r) : r.buffer[c[1]][c[2]].set
    /\ LET ws == PendingWrites
       IN  /\ \E i \in 1 .. Len(ws) : ws[i].x < 0
           /\ \E i \in 1 .. Len(ws) : ws[i].x >= r.width

\* C5: when RenderWave is entered every cell is unoccupied at the sentinel depth,
\* so whatever depth the tick's writes carry, the first one to reach an in-bounds
\* cell passes the depth test; also in the first tick and after a resize.
C5_ClearedAtRender ==
    app.pc = "render" =>
        /\ \A c \in Grid(r) : r.buffer[c[1]][c[2]] = ClearedCell
        /\ LET ws == PendingWrites
           IN  \A i \in 1 .. Len(ws) :
                   <<ws[i].y, ws[i].x>> \in Grid(r) =>
                       Less(r.buffer[ws[i].y][ws[i].x].depth, ws[i].depth)

\* RenderWave is about to run in a later tick that has just handled a resize, with
\* writes of negative depth among those that will land in the buffer.
C5_Witness ==
    /\ app.pc = "render"
    /\ app.n >= 1
    /\ aux.consumed.type = "resize"
    /\ LET ws == PendingWrites
       IN  \E i \in 1 .. Len(ws) :
               /\ <<ws[i].y, ws[i].x>> \in Grid(r)
               /\ Less(ws[i].depth, IntF(0))

TickOrder == <<"poll", "update", "clear", "render", "flush">>

\* How far the current tick has got when control is at pc.
StepsDoneAt(pc) ==
    CASE pc = "start" -> 0
      [] pc = "loop" -> 0
      [] pc = "select" -> 0
      [] pc = "poll" -> 0
      [] pc = "resize" -> 1
      [] pc = "update" -> 1
      [] pc = "clear" -> 2
      [] pc = "render" -> 3
      [] pc = "flush" -> 4
      [] pc = "advance" -> 5
      [] OTHER -> -1

\* Sequence a is the front of sequence b.
IsFront(a, b) == Len(a) <= Len(b) /\ SubSeq(b, 1, Len(a)) = a

\* The state part of C6: the steps of a tick happen in the order poll, Update,
\* Clear, RenderWave, Flush; the poll takes the first of the events that were
\* pending when the tick began and no other, and every other one is still at
\* the front of the queue, before whatever arrived during the tick; Run
\* returns only between ticks or right after the poll; t is the fixed step
\* times the number of finished ticks.
C6_TickOrder ==
    /\ app.pc # "panic"
    /\ aux.log = SubSeq(TickOrder, 1, Len(aux.log))
    /\ Len(aux.log) >= 1 => aux.polled = Min2(Len(aux.pending), 1)
    /\ aux.polled = 0 => aux.consumed = NoEvent
    /\ aux.polled = 1 => aux.consumed = Head(aux.pending)
    /\ app.pc \in {"poll", "resize", "update", "clear", "render", "flush", "advance"} =>
          IsFront(SubSeq(aux.pending, 1 + aux.polled, Len(aux.pending)), scr.events)
    /\ app.pc # "done" => Len(aux.log) = StepsDoneAt(app.pc)
    /\ app.pc = "done" => Len(aux.log) \in {0, 1}
    /\ aux.updates = app.n + (IF Len(aux.log) >= 2 THEN 1 ELSE 0)
    /\ aux.clears = app.n + (IF Len(aux.log) >= 3 THEN 1 ELSE 0)
    /\ aux.renders = app.n + (IF Len(aux.log) >= 4 THEN 1 ELSE 0)
    /\ aux.flushes = app.n + (IF Len(aux.log) >= 5 THEN 1 ELSE 0)
    /\ app.t = TimeStep * app.n

\* The progress part of C6: a tick that got past the poll finishes: it reaches
\* the loop test again, with as many Flush calls done as ticks counted,
\* whatever arrives in the meantime.
C6_TickCompletes ==
    (app.pc = "update") ~> (app.pc = "loop" /\ aux.log = <<>> /\ aux.flushes = app.n)

\* C6: every tick that does not quit polls at most one pending event, then runs
\* Update, Clear, RenderWave and Flush in this order and to the end, then
\* advances t by the fixed step; quit conditions are examined only between
\* ticks or before Update.
C6_TickRuns == []C6_TickOrder /\ C6_TickCompletes

\* A second tick started with two events pending, polled the first, left the
\* second in the queue and has run all five steps.
C6_Witness ==
    /\ app.pc = "advance"
    /\ app.n = 1
    /\ Len(aux.pending) = 2
    /\ aux.polled = 1
    /\ aux.log = TickOrder
    /\ aux.flushes = 2

\* The keys the controls list as quitting.
QuitEvents ==
    {[type |-> "key", key |-> "KeyEscape", rune |-> ""],
     [type |-> "key", key |-> "KeyCtrlC", rune |-> ""],
     [type |-> "key", key |-> "KeyRune", rune |-> "q"],
     [type |-> "key", key |-> "KeyRune", rune |-> "Q"]}

C7_State ==
    /\ app.pc = "done" =>
          /\ app.ret = "nil"
          /\ scr.fini
          /\ \/ aux.log = <<>>
             \/ aux.log = <<"poll">> /\ aux.consumed \in QuitEvents
    /\ app.pc \notin {"done", "panic"} => (app.ret = "running" /\ ~scr.fini)
    /\ (app.pc \in TickBody /\ aux.consumed.type = "resize") =>
          <<r.width, r.height>> = aux.seen

C7_Step ==
    \* nothing is updated or rendered after Run has returned; only a.running can
    \* still change, by a call of Stop
    /\ app.pc = "done" =>
          /\ wave' = wave /\ r' = r /\ scr' = scr
          /\ app' = [app EXCEPT !.running = app'.running, !.stop = app'.stop]
    \* a quit key consumed by the poll ends Run, any other event does not
    /\ (app.pc = "poll" /\ app'.pc # "poll") =>
          /\ aux'.polled = 1
          /\ app'.pc = "done" <=> aux'.consumed \in QuitEvents
    \* a signal taken from the channel ends Run
    /\ (app.pc = "select" /\ app.sig = 1 /\ app'.sig = 0) => app'.pc = "done"
    \* Run ends only at the loop test, at the select or with the polled event
    /\ (app.pc # "done" /\ app'.pc = "done") => app.pc \in {"loop", "select", "poll"}
    \* at the loop test it ends only after Stop
    /\ (app.pc = "loop" /\ app'.pc = "done") => ~app.running

\* C7: quit.  A consumed q, Q, Esc or Ctrl+C, or a signal taken from the channel,
\* makes Run return nil with the screen finalised and nothing updated or rendered
\* afterwards; no other key and no resize makes it return, and a resize event has
\* resized the renderer before that tick's Update and render.
C7_Quit == []C7_State /\ [][C7_Step]_vars

\* Run has returned on Ctrl+C after at least one full tick.
C7_Witness ==
    /\ app.pc = "done"
    /\ app.n >= 1
    /\ aux.consumed = [type |-> "key", key |-> "KeyCtrlC", rune |-> ""]
    /\ scr.fini

----------------------------------------------------------------------------
(* Properties of the surface model (checked under SpecWave) *)

LastCall == aux.calls[Len(aux.calls)]

GridIndex == (0 .. GridDepth - 1) \X (0 .. GridWidth - 1)

\* C8: Update is history-free.  Whatever Update calls came before, the state
\* Update(t) leaves (grid, MinZ, MaxZ, particle list) is the state a single
\* Update(t) leaves on a freshly built Wave.
C8_UpdateHistoryFree ==
    aux.calls # <<>> => wave = Update(NewWave, LastCall)

\* A second Update, at an earlier time than the first, both at times that
\* produce a particle.
C8_Witness ==
    /\ Len(aux.calls) = 2
    /\ aux.calls[1] > aux.calls[2]
    /\ aux.calls[2] >= 2 * TimeStep
    /\ Len(wave.Particles) >= 1

\* C9: after Update, MinZ <= Z <= MaxZ for every grid sample, both bounds are
\* the Z of some sample of this Update, and every particle's Z lies within them.
C9_RangeBrackets ==
    aux.calls # <<>> =>
        /\ \A c \in GridIndex :
              /\ wave.MinZ <= wave.GridPoints[c[1]][c[2]].Z
              /\ wave.GridPoints[c[1]][c[2]].Z <= wave.MaxZ
        /\ \E c \in GridIndex : wave.GridPoints[c[1]][c[2]].Z = wave.MinZ
        /\ \E c \in GridIndex : wave.GridPoints[c[1]][c[2]].Z = wave.MaxZ
        /\ \A i \in 1 .. Len(wave.Particles) :
              /\ wave.MinZ <= wave.Particles[i].Pos.Z
              /\ wave.Particles[i].Pos.Z <= wave.MaxZ
              /\ wave.Particles[i].Velocity = wave.Particles[i].Pos.Z

\* An Update at t = 0 (the widest range) followed by a later one whose range is
\* narrower on both sides and which produced a particle.
C9_Witness ==
    /\ Len(aux.calls) = 2
    /\ aux.calls[1] = 0
    /\ wave.MinZ > Update(NewWave, 0).MinZ
    /\ wave.MaxZ < Update(NewWave, 0).MaxZ
    /\ Len(wave.Particles) >= 1

----------------------------------------------------------------------------
(* Properties of the palette look-up (checked under SpecPal) *)

InPalettes ==
    /\ pal.shade1 \in 0 .. Len(shadeChars) - 1
    /\ pal.shade2 \in 0 .. Len(shadeChars) - 1
    /\ pal.block1 \in 0 .. Len(blockChars) - 1
    /\ pal.block2 \in 0 .. Len(blockChars) - 1
    /\ pal.stop1 \in 1 .. Len(colorGradient)
    /\ pal.stop2 \in 1 .. Len(colorGradient)

\* C10: for any two shade values s1 <= s2, also below 0 and above 1, the glyph
\* index and the gradient stop selected for s2 are not lower than those selected
\* for s1, and every selection lies within its table.
C10_MonotonicForAll ==
    pal.looked =>
        /\ InPalettes
        /\ pal.s1 <= pal.s2 =>
              /\ pal.shade1 <= pal.shade2
              /\ pal.block1 <= pal.block2
              /\ pal.stop1 <= pal.stop2

----------------------------------------------------------------------------
(* Normalised height *)

\* C11: every normalizedZ argument RenderWave passes to getShadeChar,
\* getBlockChar and getStyle lies in [0, 1], for every grid and every MinZ and
\* MaxZ, also when a sample lies slightly outside [MinZ, MaxZ] and when the
\* range is zero and replaced by 1.
C11_NormalizedClamped ==
    aux.last = "RenderWave" =>
        \A a \in aux.lookups :
            ~Less(a.normalizedZ, IntF(0)) /\ ~Less(IntF(1), a.normalizedZ)

----------------------------------------------------------------------------
(* Line rasterisation *)

\* C12: drawShadedLine writes at least one and at most |dx|+|dy|+1 cells, the
\* first at (x1,y1) and the last at (x2,y2); consecutive cells differ by at
\* most one on each axis and never move away from the endpoint; every cell
\* carries the average of the endpoint depths and one glyph, "|" when
\* |dy| > |dx| and the shade glyph otherwise.
C12_LineReachesEnd ==
    aux.last = "drawShadedLine" =>
        LET a == aux.lineArgs
            ws == aux.line
            n == Len(ws)
            dx == abs(a.x2 - a.x1)
            dy == abs(a.y2 - a.y1)
        IN  /\ n >= 1 /\ n <= dx + dy + 1
            /\ ws[1].x = a.x1 /\ ws[1].y = a.y1
            /\ ws[n].x = a.x2 /\ ws[n].y = a.y2
            /\ \A i \in 1 .. n - 1 :
                  /\ abs(ws[i + 1].x - ws[i].x) <= 1
                  /\ abs(ws[i + 1].y - ws[i].y) <= 1
                  /\ abs(a.x2 - ws[i + 1].x) <= abs(a.x2 - ws[i].x)
                  /\ abs(a.y2 - ws[i + 1].y) <= abs(a.y2 - ws[i].y)
                  /\ <<ws[i + 1].x, ws[i + 1].y>> # <<ws[i].x, ws[i].y>>
            /\ \A i \in 1 .. n :
                  /\ ws[i].depth = Over(Plus(Lit(a.d1), Lit(a.d2)), IntF(2))
                  /\ ws[i].char = IF dy > dx THEN "|"
                                  ELSE getShadeChar(Lit(a.normalizedZ), Lit(a.layerFactor))

\* A steep line drawn leftwards and upwards between endpoints of different
\* depths, and so with "|", has been rasterised in more than two cells.
C12_Witness ==
    /\ aux.last = "drawShadedLine"
    /\ aux.lineArgs.x1 > aux.lineArgs.x2
    /\ aux.lineArgs.y1 - aux.lineArgs.y2 > aux.lineArgs.x1 - aux.lineArgs.x2
    /\ aux.lineArgs.d1 # aux.lineArgs.d2
    /\ Len(aux.line) > 2
    /\ aux.line[1].char = "|"

----------------------------------------------------------------------------
(* Particles *)

\* The glyphs the surface itself is drawn with.
SurfaceGlyphs ==
    {shadeChars[i] : i \in 1 .. Len(shadeChars)}
        \cup {blockChars[i] : i \in 1 .. Len(blockChars)} \cup {"|"}

\* Write number i of the tick is the write of particle number k: at the
\* particle's projection, with its depth, with a glyph of its own.
IsParticleWrite(i, k) ==
    LET s == project3D(r, wave.Particles[k].Pos)
    IN  /\ PendingWrites[i].x = s.x
        /\ PendingWrites[i].y = s.y
        /\ PendingWrites[i].depth = s.depth
        /\ PendingWrites[i].char \notin SurfaceGlyphs

\* C13: in every tick RenderWave issues, after the writes of the grid, one write
\* per particle of the current Update, with the particle glyph and through
\* setCell; at Flush a particle that lies in bounds and in front of every
\* surface write aimed at its cell is the content of that cell.
C13_ParticlesRendered ==
    /\ app.pc = "render" =>
          \A k \in 1 .. Len(wave.Particles) :
              \E i \in 1 .. Len(PendingWrites) :
                  /\ IsParticleWrite(i, k)
                  /\ \A j \in i .. Len(PendingWrites) :
                        PendingWrites[j].char \notin SurfaceGlyphs
    /\ app.pc = "advance" =>
          \A k \in 1 .. Len(wave.Particles) :
              LET s == project3D(r, wave.Particles[k].Pos)
              IN  (/\ <<s.y, s.x>> \in Grid(r)
                   /\ \A i \in 1 .. Len(PendingWrites) :
                         (/\ PendingWrites[i].x = s.x
                          /\ PendingWrites[i].y = s.y
                          /\ PendingWrites[i].char \in SurfaceGlyphs)
                             => Less(PendingWrites[i].depth, s.depth))
                      => r.buffer[s.y][s.x].char \notin SurfaceGlyphs

============================================================================
